---- MODULE Spec2Model ----
(***************************************************************************)
(* importscanner/cli.py as a state machine.                                *)
(*                                                                         *)
(* The process state is the two lru_cache tables (the Installed Module     *)
(* Index of get_all_installed_top_level_modules and the per-name answers   *)
(* of is_installed_package), the three result sets of classify_imports,    *)
(* and the position of main with what it has printed, logged and written.  *)
(* The environment is the stdlib table of the running version and the set  *)
(* of installed distributions; both are fixed for the life of a process.   *)
(*                                                                         *)
(* Every call the code guards with an except clause has two outcomes, the  *)
(* answer and the exception, chosen anew at each call: the code performs   *)
(* the call anew each time it is not served by an lru_cache.  Writes to    *)
(* stdout and calls of the logging module are taken to succeed.            *)
(*                                                                         *)
(* Spec      a process that calls is_stdlib, is_installed_package and      *)
(*           classify_imports (the same name set each time).               *)
(* MainSpec  one run of main from a fresh process.                         *)
(***************************************************************************)
EXTENDS Integers, Sequences, FiniteSets, TLC

VARIABLES
    stdlibTable,     \* what stdlib_list(version_str) lists (line 72)
    installed,       \* the distributions importlib.metadata sees
    idxCache,        \* lru_cache of get_all_installed_top_level_modules: {} or {index}
    pkgCache,        \* lru_cache of is_installed_package: name -> "miss" or how it was answered
    stdlibAsked,     \* names whose stdlib_list query has run
    stdlibRequeried, \* names whose stdlib_list query has run more than once
    enumRuns,        \* runs of the distribution enumeration: "none", "once", "again"
    imports,         \* the argument of classify_imports
    pending,         \* names the for loop of classify_imports has still to visit
    stdlib,          \* classify_imports' local stdlib
    third_party,     \* classify_imports' local third_party
    local,           \* classify_imports' local local
    fallback,        \* names assigned by the final else of classify_imports
    firstAns,        \* per name: the answers lines 142 and 144 got in the current call
    differed,        \* a classify_imports call returned another triple than the call before it
    lastResult,      \* what the latest completed classify_imports call returned (<<>>: none yet)
    mpc,             \* position of main
    args,            \* parsed arguments: path kind, save, log
    walk,            \* files os.walk has still to yield
    tree,            \* the files under the path argument, in os.walk order
    all_imports,     \* scan_directory's accumulator
    scan,            \* scan_directory: "no", "running", "done", "aborted"
    unreadable,      \* names of the files whose open, read or parse raised
    console,         \* what print has written, in order
    logged,          \* <<level, subject>> records the logger has emitted
    handlers,        \* handlers of the "importscanner" logger
    reqFile,         \* requirements.txt: "untouched" or the lines written
    saveState        \* save_requirements: "no", "ok", "failed"

oracleVars == <<idxCache, pkgCache, stdlibAsked, stdlibRequeried, enumRuns>>
classifyVars == <<imports, pending, stdlib, third_party, local, fallback, firstAns,
                  differed, lastResult>>
mainVars == <<mpc, args, walk, tree, all_imports, scan, unreadable, console, logged, handlers,
              reqFile, saveState>>
envVars == <<stdlibTable, installed>>
vars == <<envVars, oracleVars, classifyVars, mainVars>>

(***************************************************************************)
(* Bounds                                                                  *)
(***************************************************************************)
MaxImports == 2    \* size of the name set handed to classify_imports
MaxFiles == 2      \* files under the scanned path

(***************************************************************************)
(* Names, distributions, files                                             *)
(***************************************************************************)
Names == {"os", "PIL", "pkg_resources"}

Range(s) == {s[i] : i \in DOMAIN s}

\* str.lower on the strings of the model
Lower(s) == IF s = "PIL" THEN "pil" ELSE s

\* str.strip on the lines of a top_level.txt
Strip(line) == IF line = "  " THEN "" ELSE line

\* sorted(): code point order, upper case before lower case
SortOrder == <<"PIL", "os", "pkg_resources">>

Rank(n) == CHOOSE i \in DOMAIN SortOrder : SortOrder[i] = n

Sorted(S) ==
    CHOOSE s \in [1..Cardinality(S) -> S] :
        /\ Range(s) = S
        /\ \A i, j \in DOMAIN s : i < j => Rank(s[i]) < Rank(s[j])

SUBMODULE_TO_PACKAGE == ("pkg_resources" :> "setuptools")

\* A distribution: its name, whether its metadata can be read, the lines of
\* its top_level.txt (<<>>: none or empty), the files it owns as path segments.
Setuptools ==
    [name |-> "setuptools", version |-> "68.0", readable |-> TRUE,
     top_level_txt |-> <<"setuptools", "  ">>, files |-> {}]

Distribute ==
    [name |-> "distribute", version |-> "0.7", readable |-> TRUE,
     top_level_txt |-> <<"pkg_resources">>, files |-> {}]

Pillow ==
    [name |-> "pillow", version |-> "10.0", readable |-> TRUE,
     top_level_txt |-> <<>>,
     files |-> {<<"PIL", "__init__.py">>, <<"PIL", "Image.py">>, <<"docs", "conf.py">>}]

OldPil ==
    [name |-> "pil", version |-> "1.1.7", readable |-> FALSE,
     top_level_txt |-> <<"PIL">>, files |-> {}]

Distributions == {Setuptools, Distribute, Pillow, OldPil}

StdlibTables == {{"os"}, {"os", "pkg_resources"}}

InputSets == {S \in SUBSET Names : Cardinality(S) <= MaxImports}

\* A source file: its name and extension, and the statements ast.parse gives
\* when it can be read and parsed.  A dotted name is the sequence of its
\* segments; module <<>> is the None of "from . import x".
AppPy ==
    [name |-> "app", ext |-> ".py",
     body |-> <<[node |-> "Import", names |-> <<<<"os">>, <<"PIL", "Image">>>>, module |-> <<>>],
                [node |-> "ImportFrom", names |-> <<<<"utils">>>>, module |-> <<>>],
                [node |-> "Expr", names |-> <<>>, module |-> <<>>]>>]

SetupPy ==
    [name |-> "setup", ext |-> ".py",
     body |-> <<[node |-> "ImportFrom", names |-> <<<<"working_set">>>>,
                 module |-> <<"pkg_resources", "extern">>]>>]

Readme ==
    [name |-> "README", ext |-> ".md",
     body |-> <<[node |-> "Import", names |-> <<<<"os">>>>, module |-> <<>>]>>]

Files == {AppPy, SetupPy, Readme}

\* The files under the scanned path, in the order os.walk yields them.
Trees ==
    UNION {{t \in [1..n -> Files] : \A i, j \in 1..n : i # j => t[i] # t[j]} : n \in 0..MaxFiles}

\* What open, read and ast.parse can raise for a file.
Exceptions == {"SyntaxError", "UnicodeDecodeError", "OSError", "ValueError", "RecursionError"}

\* The except clause of extract_imports_from_file.
CaughtByExtract == {"SyntaxError", "UnicodeDecodeError", "OSError"}

PathKinds == {"dir", "file", "missing"}

(***************************************************************************)
(* Caching & Discovery, Detection Logic                                    *)
(***************************************************************************)
\* The names one distribution adds to the index (the body of the for loop of
\* get_all_installed_top_level_modules): a distribution whose metadata cannot
\* be read is skipped; a non-empty top_level.txt gives its stripped non-blank
\* lines; otherwise the first segment of every owned path ending in
\* __init__.py.
TopLevelOf(dist) ==
    IF ~dist.readable THEN {}
    ELSE IF dist.top_level_txt # <<>>
    THEN {Strip(line) : line \in Range(dist.top_level_txt)} \ {""}
    ELSE {file[1] : file \in {f \in dist.files : f[Len(f)] = "__init__.py"}}

\* What get_all_installed_top_level_modules computes when it runs.
InstalledTopLevel == UNION {TopLevelOf(d) : d \in installed}

\* importlib.metadata.version(name) finds a distribution (else PackageNotFoundError).
VersionFound(name) == \E d \in installed : d.name = Lower(name)

VersionOf(name) == (CHOOSE d \in installed : d.name = Lower(name)).version

\* Mutant of ActualName: the alias table is not consulted.
ActualNameNoAlias(mod) == mod

\* SUBMODULE_TO_PACKAGE.get(mod, mod)
ActualName(mod) ==
    IF mod \in DOMAIN SUBMODULE_TO_PACKAGE THEN SUBMODULE_TO_PACKAGE[mod] ELSE mod

\* is_stdlib: the table is queried at every call; any exception answers False.
IsStdlib(module_name, fault) ==
    IF fault THEN FALSE ELSE module_name \in stdlibTable

\* One more run of the enumeration of distributions.
Bump(runs) == IF runs = "none" THEN "once" ELSE "again"

\* The body of is_installed_package on a cache miss.  via is how the call
\* returned: "index" and "version" return True, "notfound" (PackageNotFoundError)
\* and "error" (any other exception) return False.  idx is the lru_cache of
\* get_all_installed_top_level_modules afterwards (a call that raises stores
\* nothing), ran whether the enumeration of distributions ran.
LookupInstalled(module_name, enumFault, verFault) ==
    LET mod == Lower(module_name)
        hit == idxCache # {}
        index == IF hit THEN CHOOSE s \in idxCache : TRUE ELSE InstalledTopLevel
        installedLower == {Lower(m) : m \in index}
    IN  IF ~hit /\ enumFault
        THEN [via |-> "error", idx |-> idxCache, ran |-> TRUE]
        ELSE [via |-> IF mod \in installedLower THEN "index"
                      ELSE IF verFault THEN "error"
                      ELSE IF VersionFound(ActualName(mod)) THEN "version"
                      ELSE "notfound",
              idx |-> {index}, ran |-> ~hit]

\* is_installed_package behind its lru_cache.
IsInstalledPackage(module_name, enumFault, verFault) ==
    IF pkgCache[module_name] # "miss"
    THEN [via |-> pkgCache[module_name], idx |-> idxCache, ran |-> FALSE]
    ELSE LookupInstalled(module_name, enumFault, verFault)

\* The fault inputs are enumerated only where they change the outcome of the call.
FaultsMatter(module_name, enumFault, verFault) ==
    /\ enumFault => IsInstalledPackage(module_name, enumFault, verFault)
                        # IsInstalledPackage(module_name, FALSE, verFault)
    /\ verFault => IsInstalledPackage(module_name, enumFault, verFault)
                       # IsInstalledPackage(module_name, enumFault, FALSE)

\* The boolean is_installed_package returned.
Answer(via) == via \in {"index", "version"}

\* is_local_module, with the two answers it gets.
IsLocalModule(isStd, isInst) == ~isStd /\ ~isInst

(***************************************************************************)
(* classify_imports                                                        *)
(***************************************************************************)
\* Mutant of Targets: the second test is an if, not an elif.
TargetsNoElif(s1, inst, s2) ==
    (IF s1 THEN {"stdlib"} ELSE {})
        \cup (IF inst THEN {"third_party"}
              ELSE IF s1 THEN {}
              ELSE IF IsLocalModule(s2, inst) THEN {"local"} ELSE {"third_party"})

\* The result sets the if/elif chain adds a module to: s1 is the answer of
\* is_stdlib at line 142, inst of is_installed_package at line 144, s2 of the
\* is_stdlib call inside is_local_module (which gets inst again from the cache).
Targets(s1, inst, s2) ==
    IF s1 THEN {"stdlib"}
    ELSE IF inst THEN {"third_party"}
    ELSE IF IsLocalModule(s2, inst) THEN {"local"}
    ELSE {"third_party"}

\* Whether the chain ends in its final else.
TakesFallback(s1, inst, s2) == ~s1 /\ ~inst /\ ~IsLocalModule(s2, inst)

NoAnswers == [n \in Names |-> <<>>]

\* The tuple classify_imports returns.
Returned(s, t, l) == [stdlib |-> s, third_party |-> t, local |-> l]

\* One iteration of the for loop of classify_imports; the last one returns.
ClassifyStep ==
    /\ pending # {}
    /\ \E module \in pending, f1 \in BOOLEAN, f2 \in BOOLEAN, ef \in BOOLEAN, vf \in BOOLEAN :
        LET s1 == IsStdlib(module, f1)
            r == IsInstalledPackage(module, ef, vf)
            inst == Answer(r.via)
            s2 == IsStdlib(module, f2)
            to == Targets(s1, inst, s2)
            newStdlib == IF "stdlib" \in to THEN stdlib \cup {module} ELSE stdlib
            newThird == IF "third_party" \in to THEN third_party \cup {module} ELSE third_party
            newLocal == IF "local" \in to THEN local \cup {module} ELSE local
        IN  \* fault inputs of calls that are not made are not enumerated
            /\ s1 => (~ef /\ ~vf)
            /\ (s1 \/ inst) => ~f2
            /\ f1 => module \in stdlibTable
            /\ f2 => module \in stdlibTable
            /\ FaultsMatter(module, ef, vf)
            /\ stdlib' = newStdlib
            /\ third_party' = newThird
            /\ local' = newLocal
            /\ fallback' = IF TakesFallback(s1, inst, s2) THEN fallback \cup {module} ELSE fallback
            /\ firstAns' = [firstAns EXCEPT ![module] = IF s1 THEN <<s1>> ELSE <<s1, inst>>]
            /\ stdlibAsked' = stdlibAsked \cup {module}
            /\ stdlibRequeried' =
                   IF module \in stdlibAsked \/ (~s1 /\ ~inst)
                   THEN stdlibRequeried \cup {module} ELSE stdlibRequeried
            /\ pkgCache' = IF s1 THEN pkgCache ELSE [pkgCache EXCEPT ![module] = r.via]
            /\ idxCache' = IF s1 THEN idxCache ELSE r.idx
            /\ enumRuns' = IF ~s1 /\ r.ran THEN Bump(enumRuns) ELSE enumRuns
            /\ pending' = pending \ {module}
            /\ lastResult' = IF pending' = {} THEN Returned(newStdlib, newThird, newLocal)
                             ELSE lastResult
            /\ differed' = IF pending' = {} /\ lastResult # <<>>
                                /\ Returned(newStdlib, newThird, newLocal) # lastResult
                           THEN TRUE ELSE differed
            /\ mpc' = IF pending' = {} /\ mpc = "classify" THEN "print" ELSE mpc
    /\ UNCHANGED <<envVars, imports, args, walk, tree, all_imports, scan, unreadable, console,
                   logged, handlers, reqFile, saveState>>

\* A call of classify_imports(imports): the three sets start empty.
CallClassifyImports ==
    /\ mpc = "idle"
    /\ pending = {}
    /\ stdlib' = {}
    /\ third_party' = {}
    /\ local' = {}
    /\ fallback' = {}
    /\ firstAns' = NoAnswers
    /\ pending' = imports
    /\ lastResult' = IF imports = {} THEN Returned({}, {}, {}) ELSE lastResult
    /\ UNCHANGED differed
    /\ UNCHANGED <<envVars, oracleVars, imports, mainVars>>

\* A call of is_stdlib(n) from outside classify_imports.
CallIsStdlib ==
    /\ mpc = "idle"
    /\ pending = {}
    /\ \E n \in imports :
        /\ stdlibAsked' = stdlibAsked \cup {n}
        /\ stdlibRequeried' = IF n \in stdlibAsked THEN stdlibRequeried \cup {n}
                              ELSE stdlibRequeried
    /\ UNCHANGED <<envVars, idxCache, pkgCache, enumRuns, classifyVars, mainVars>>

\* A call of is_installed_package(n) from outside classify_imports.
CallIsInstalledPackage ==
    /\ mpc = "idle"
    /\ pending = {}
    /\ \E n \in imports, ef \in BOOLEAN, vf \in BOOLEAN :
        LET r == IsInstalledPackage(n, ef, vf)
        IN  /\ FaultsMatter(n, ef, vf)
            /\ pkgCache' = [pkgCache EXCEPT ![n] = r.via]
            /\ idxCache' = r.idx
            /\ enumRuns' = IF r.ran THEN Bump(enumRuns) ELSE enumRuns
    /\ UNCHANGED <<envVars, stdlibAsked, stdlibRequeried, classifyVars, mainVars>>

(***************************************************************************)
(* File Parsing, scan_directory, save_requirements, main                   *)
(***************************************************************************)
\* The loop of extract_imports_from_file over the nodes of the tree: the first
\* segment of every imported name, and of the module of every from-import
\* that names one.
ImportsOf(body) ==
    UNION {IF body[i].node = "Import"
           THEN {Head(alias) : alias \in Range(body[i].names)}
           ELSE IF body[i].node = "ImportFrom" /\ body[i].module # <<>>
           THEN {Head(body[i].module)}
           ELSE {} : i \in DOMAIN body}

Entry(hdr, body) == [hdr |-> hdr, body |-> body]

\* "  - " + names joined, or the placeholder line.
ListOrNone(S) == IF S # {} THEN Sorted(S) ELSE <<"(None detected)">>

\* The except clause of main: logger.exception and the generic message.
Unexpected(con) == Append(con, Entry("unexpected_error", <<>>))

\* The three lists main prints, in order.
PrintedLists(r) ==
    <<Entry("third_party", ListOrNone(r.third_party)),
      Entry("local", ListOrNone(r.local)),
      Entry("stdlib", ListOrNone(r.stdlib))>>

\* Mutant of ConsoleAfterSave: the failure leaves save_requirements and reaches
\* the except clause of main.
ConsoleAfterSaveRaises(con, failed) == IF failed THEN Unexpected(con) ELSE con

\* The console after save_requirements: its own except clause logs the failure
\* and returns, so main prints nothing more.
ConsoleAfterSave(con, failed) == con

\* The lines save_requirements writes: name==version, or the bare name when the
\* version lookup raises (vfail: lookups that raise for another reason than a
\* missing distribution).
RequirementLines(pkgs, vfail) ==
    [i \in DOMAIN pkgs |->
        IF pkgs[i] \notin vfail /\ VersionFound(pkgs[i])
        THEN [pkg |-> pkgs[i], version |-> VersionOf(pkgs[i])]
        ELSE [pkg |-> pkgs[i], version |-> ""]]

\* setup_logger, called by main before its try block: the handler list is
\* cleared, the console handler added, and with --log the file handler, whose
\* constructor opens importscanner.log.
SetupLogger ==
    /\ mpc = "setup"
    /\ \E openFault \in BOOLEAN :
        /\ openFault => args.log
        /\ handlers' = IF args.log /\ ~openFault THEN {"console", "file"} ELSE {"console"}
        /\ mpc' = IF openFault THEN "raised" ELSE "resolve"
    /\ UNCHANGED <<envVars, oracleVars, classifyVars, args, walk, tree, all_imports, scan,
                   unreadable, console, logged, reqFile, saveState>>

\* The path check of main (lines 208-212) and the entry of scan_directory.
ResolvePath ==
    /\ mpc = "resolve"
    /\ \E fault \in BOOLEAN :
        IF fault
        THEN /\ console' = Unexpected(console)
             /\ logged' = logged \cup {<<"exception", "main">>}
             /\ mpc' = "returned"
             /\ UNCHANGED <<scan, walk>>
        ELSE IF args.path # "dir"
        THEN /\ console' = Append(console, Entry("invalid_path", <<>>))
             /\ logged' = logged \cup {<<"error", "invalid path">>}
             /\ mpc' = "returned"
             /\ UNCHANGED <<scan, walk>>
        ELSE /\ scan' = "running"
             /\ walk' = tree
             /\ logged' = logged \cup {<<"info", "scanning">>}
             /\ mpc' = "scan"
             /\ UNCHANGED console
    /\ UNCHANGED <<envVars, oracleVars, classifyVars, args, tree, all_imports, unreadable,
                   handlers, reqFile, saveState>>

\* One file of the os.walk loop of scan_directory, with the call of
\* extract_imports_from_file on it.
ScanFile ==
    /\ mpc = "scan"
    /\ walk # <<>>
    /\ LET file == Head(walk)
       IN  \E exc \in Exceptions \cup {"none"} :
            /\ file.ext # ".py" => exc = "none"
            /\ walk' = Tail(walk)
            /\ all_imports' = IF file.ext = ".py" /\ exc = "none"
                              THEN all_imports \cup ImportsOf(file.body) ELSE all_imports
            /\ unreadable' = IF exc # "none" THEN unreadable \cup {file.name} ELSE unreadable
            /\ scan' = IF exc \in Exceptions \ CaughtByExtract THEN "aborted" ELSE scan
            /\ logged' = IF exc \in CaughtByExtract THEN logged \cup {<<"error", file.name>>}
                         ELSE IF exc # "none" THEN logged \cup {<<"exception", "main">>}
                         ELSE logged
            /\ console' = IF exc \in Exceptions \ CaughtByExtract THEN Unexpected(console)
                          ELSE console
            /\ mpc' = IF exc \in Exceptions \ CaughtByExtract THEN "returned" ELSE mpc
    /\ UNCHANGED <<envVars, oracleVars, classifyVars, args, tree, handlers, reqFile, saveState>>

\* scan_directory returns and main calls classify_imports on what it found.
ScanReturn ==
    /\ mpc = "scan"
    /\ walk = <<>>
    /\ scan' = "done"
    /\ imports' = all_imports
    /\ pending' = all_imports
    /\ stdlib' = {}
    /\ third_party' = {}
    /\ local' = {}
    /\ fallback' = {}
    /\ firstAns' = NoAnswers
    /\ lastResult' = IF all_imports = {} THEN Returned({}, {}, {}) ELSE lastResult
    /\ mpc' = IF all_imports = {} THEN "print" ELSE "classify"
    /\ UNCHANGED <<envVars, oracleVars, differed, args, walk, tree, all_imports, unreadable,
                   console, logged, handlers, reqFile, saveState>>

\* The three print blocks of main.
PrintLists ==
    /\ mpc = "print"
    /\ console' = console \o PrintedLists(lastResult)
    /\ mpc' = IF args.save THEN "save" ELSE "returned"
    /\ UNCHANGED <<envVars, oracleVars, classifyVars, args, walk, tree, all_imports, scan,
                   unreadable, logged, handlers, reqFile, saveState>>

\* save_requirements: open may raise; the version lookup of a package may
\* raise; a write may raise after k lines have reached the file.  The inner
\* except clause logs a warning and writes the bare name, the outer one logs
\* the failure and returns.
SaveRequirements ==
    /\ mpc = "save"
    /\ LET pkgs == Sorted(lastResult.third_party)
       IN  \E openFault \in BOOLEAN, writeFault \in BOOLEAN, k \in 0..Len(pkgs),
              vfail \in SUBSET Range(pkgs) :
            LET lines == RequirementLines(pkgs, vfail)
                attempted == IF openFault THEN 0 ELSE IF writeFault THEN k + 1 ELSE Len(pkgs)
                failed == openFault \/ writeFault
                warned == {pkgs[i] : i \in {j \in 1..attempted :
                                               \/ lines[j].version = ""
                                               \/ writeFault /\ j = k + 1}}
            IN  /\ openFault => ~writeFault
                /\ writeFault => k < Len(pkgs)
                /\ ~writeFault => k = (IF openFault THEN 0 ELSE Len(pkgs))
                /\ \A n \in vfail : VersionFound(n) /\ \E i \in 1..attempted : pkgs[i] = n
                /\ reqFile' = IF openFault THEN reqFile ELSE SubSeq(lines, 1, k)
                /\ saveState' = IF failed THEN "failed" ELSE "ok"
                /\ logged' = logged \cup {<<"warning", n>> : n \in warned}
                                    \cup {<<"info", "saving">>}
                                    \cup (IF failed THEN {<<"error", "requirements.txt">>}
                                          ELSE {<<"info", "saved">>})
                /\ console' = ConsoleAfterSave(console, failed)
                /\ mpc' = "returned"
    /\ UNCHANGED <<envVars, oracleVars, classifyVars, args, walk, tree, all_imports, scan,
                   unreadable, handlers>>

(***************************************************************************)
(* A process calling the oracles and classify_imports                      *)
(***************************************************************************)
FreshProcess ==
    /\ idxCache = {}
    /\ pkgCache = [n \in Names |-> "miss"]
    /\ stdlibAsked = {}
    /\ stdlibRequeried = {}
    /\ enumRuns = "none"
    /\ pending = {}
    /\ stdlib = {}
    /\ third_party = {}
    /\ local = {}
    /\ fallback = {}
    /\ firstAns = NoAnswers
    /\ differed = FALSE
    /\ lastResult = <<>>
    /\ all_imports = {}
    /\ scan = "no"
    /\ unreadable = {}
    /\ console = <<>>
    /\ logged = {}
    /\ handlers = {}
    /\ reqFile = "untouched"
    /\ saveState = "no"

Init ==
    /\ stdlibTable \in StdlibTables
    /\ installed \in SUBSET Distributions
    /\ imports \in InputSets
    /\ FreshProcess
    /\ mpc = "idle"
    /\ args = [path |-> "dir", save |-> FALSE, log |-> FALSE]
    /\ tree = <<>>
    /\ walk = <<>>

Next ==
    \/ CallIsStdlib
    \/ CallIsInstalledPackage
    \/ CallClassifyImports
    \/ ClassifyStep

Spec == Init /\ [][Next]_vars

(***************************************************************************)
(* One run of main                                                         *)
(***************************************************************************)
MainInit ==
    /\ stdlibTable \in StdlibTables
    /\ installed \in SUBSET Distributions
    /\ imports = {}
    /\ FreshProcess
    /\ mpc = "setup"
    /\ args \in [path : PathKinds, save : BOOLEAN, log : BOOLEAN]
    /\ tree \in Trees
    /\ args.path # "dir" => tree = <<>>
    /\ walk = <<>>

MainNext ==
    \/ SetupLogger
    \/ ResolvePath
    \/ ScanFile
    \/ ScanReturn
    \/ ClassifyStep
    \/ PrintLists
    \/ SaveRequirements

MainSpec == MainInit /\ [][MainNext]_vars

(***************************************************************************)
(* Properties of the oracles and of classify_imports (under Spec)          *)
(***************************************************************************)
AliasKeys == DOMAIN SUBMODULE_TO_PACKAGE

InIndexLower(n) == Lower(n) \in {Lower(m) : m \in InstalledTopLevel}

Completed == pending = {} /\ lastResult # <<>>

\* The set of the returned triple a name is in ("none" if in no set).
CategoryIn(r, n) ==
    IF n \in r.stdlib THEN "stdlib"
    ELSE IF n \in r.third_party THEN "third_party"
    ELSE IF n \in r.local THEN "local"
    ELSE "none"

\* The decision procedure as the specification words it, on the answers the
\* oracles gave: <<is_stdlib>> when it was true, else <<is_stdlib, is_installed>>.
Reference(ans) ==
    IF ans[1] THEN "stdlib" ELSE IF ans[2] THEN "third_party" ELSE "local"

\* C1: every triple classify_imports returns is a partition of its input: the
\* three sets are pairwise disjoint and their union is the input set, whatever
\* the oracles answered (error paths included).
C1_PartitionOfInput ==
    lastResult # <<>> =>
        /\ lastResult.stdlib \cup lastResult.third_party \cup lastResult.local = imports
        /\ lastResult.stdlib \cap lastResult.third_party = {}
        /\ lastResult.stdlib \cap lastResult.local = {}
        /\ lastResult.third_party \cap lastResult.local = {}

\* C1 witness: a call returned with a name in stdlib and a name in local, one
\* of the oracle answers having come from an error path.
C1_Witness ==
    /\ lastResult # <<>>
    /\ lastResult.stdlib # {}
    /\ lastResult.local # {}
    /\ \E n \in lastResult.local : pkgCache[n] = "error"

\* C2: after a call, each name is in the set the reference decision gives for
\* the answers is_stdlib (line 142) and is_installed_package (line 144) gave.
C2_ReferenceDecision ==
    Completed =>
        \A n \in imports :
            CategoryIn(lastResult, n) = Reference(firstAns[n])

\* C3: the final else of classify_imports is never executed.
C3_FallbackNeverExecuted == fallback = {}

\* C4 as claimed: an alias-table key is in third_party if and only if the
\* distribution it maps to has a version.
C4_AliasIffTargetVersioned ==
    lastResult # <<>> =>
        \A k \in imports \cap AliasKeys :
            k \in lastResult.third_party <=> VersionFound(SUBMODULE_TO_PACKAGE[k])

\* C4 as amended: an alias-table key is in third_party only if the mapped
\* distribution has a version, or the key is itself in the lowercased index, or
\* the key is in the stdlib table (the final else); and a key whose mapped
\* distribution has a version is in third_party unless classify_imports put it
\* in stdlib or is_installed_package answered it from its unexpected-error path.
C4_AliasAmended ==
    lastResult # <<>> =>
        \A k \in imports \cap AliasKeys :
            /\ k \in lastResult.third_party =>
                   \/ VersionFound(SUBMODULE_TO_PACKAGE[k])
                   \/ InIndexLower(k)
                   \/ k \in stdlibTable
            /\ (/\ VersionFound(SUBMODULE_TO_PACKAGE[k])
                /\ k \notin lastResult.stdlib
                /\ pkgCache[k] # "error") => k \in lastResult.third_party

\* C4 witness: an alias key was classified third_party through the version
\* lookup of the distribution it maps to.
C4_Witness ==
    /\ lastResult # <<>>
    /\ \E k \in imports \cap AliasKeys :
        /\ k \in lastResult.third_party
        /\ pkgCache[k] = "version"
        /\ ~InIndexLower(k)

\* C5: every classify_imports call of a process on the same name set returns
\* what the call before it returned.
C5_SameResultTwice == ~differed

\* C6: the enumeration of distributions runs at most once, and the stdlib
\* query of a name is not run again once it has been answered.
C6_ComputedAtMostOnce ==
    /\ enumRuns # "again"
    /\ stdlibRequeried = {}

(***************************************************************************)
(* Properties of a run of main (under MainSpec)                            *)
(***************************************************************************)
\* The names of the files of the tree that were read and parsed.
GoodImports ==
    UNION {ImportsOf(f.body) : f \in {g \in Range(tree) : g.ext = ".py" /\ g.name \notin unreadable}}

\* C7: whatever open, read or ast.parse raised for a file, the scan is not
\* stopped; it returns the names of the files that could be read and parsed,
\* and an error is logged for each file that could not.
C7_ScanSurvivesUnreadable ==
    /\ scan # "aborted"
    /\ scan = "done" =>
        /\ all_imports = GoodImports
        /\ \A n \in unreadable : <<"error", n>> \in logged

\* C8: when the path argument is not an existing directory, main prints an
\* error and returns normally; nothing is scanned, classified or written.
C8_InvalidPathGraceful ==
    (args.path # "dir" /\ mpc \notin {"idle", "setup", "resolve"}) =>
        /\ mpc = "returned"
        /\ console # <<>>
        /\ scan = "no"
        /\ lastResult = <<>>
        /\ reqFile = "untouched"
        /\ saveState = "no"

\* The part of C8 that holds in every run: with a path argument that is not an
\* existing directory nothing is scanned, classified or written.
InvalidPathNeverScans ==
    args.path # "dir" =>
        /\ scan = "no"
        /\ lastResult = <<>>
        /\ reqFile = "untouched"
        /\ saveState = "no"

\* The console starts with the three lists of the returned triple, in the
\* order third-party, local, standard library.
ListsPrintedInOrder ==
    /\ Len(console) >= 3
    /\ console[1] = [hdr |-> "third_party", body |-> ListOrNone(lastResult.third_party)]
    /\ console[2] = [hdr |-> "local", body |-> ListOrNone(lastResult.local)]
    /\ console[3] = [hdr |-> "stdlib", body |-> ListOrNone(lastResult.stdlib)]

\* C9: save_requirements starts only after the three lists have been printed
\* in the order third-party, local, standard library; and when opening or
\* writing requirements.txt fails, the failure is logged as an error, main
\* returns normally and the generic unexpected-error message is not printed.
C9_EmissionAfterListsContained ==
    /\ (mpc = "save" \/ saveState # "no") => ListsPrintedInOrder
    /\ saveState = "failed" =>
        /\ mpc = "returned"
        /\ <<"error", "requirements.txt">> \in logged
        /\ \A i \in DOMAIN console : console[i].hdr # "unexpected_error"

\* C9 witness: a write to requirements.txt failed after the file was opened,
\* with a third-party package to emit.
C9_Witness ==
    /\ saveState = "failed"
    /\ mpc = "returned"
    /\ reqFile # "untouched"
    /\ lastResult.third_party # {}

\* C10: no exception leaves main.
C10_NoFaultEscapesMain == mpc # "raised"

====
